---- MODULE Spec2Model ----
(***************************************************************************)
(* The response cache of src/api/index.py: the module-level dict           *)
(* _app_cache and the wrapper that cache_response(ttl) puts around a       *)
(* handler.                                                                *)
(*                                                                         *)
(* A Python dict keeps its keys in insertion order; writing an existing    *)
(* key keeps the key's place, deleting a key and writing it again puts it  *)
(* last.  min() over the keys returns the first minimal key in that order, *)
(* so the dict is modelled as a sequence of entries [key, val, ts].        *)
(*                                                                         *)
(* time.time() is an integer clock `now` that never runs backwards.  A     *)
(* handler's result is the number of the handler invocation that made it,  *)
(* so two invocations never return the same value.                         *)
(***************************************************************************)
EXTENDS Integers, Sequences, FiniteSets

\* ---- program constants ----

\* `if len(_app_cache) > 50`
MaxEntries == 50

\* ---- bounds of the model ----

\* The clock runs over 0..MaxTime.
MaxTime == 2
\* Wrapper calls in one sequential behaviour.
MaxCalls == 3
\* Wrapper calls in one threaded behaviour.
MaxThreadCalls == 2
\* The ttl of the two kinds of decorated handler, in clock units.
TtlOdd == 2
TtlEven == 1

\* The request threads of the threaded server (app.run(threaded=True)): two,
\* the number the statements about interleaving are made for.
Threads == {1, 2}

\* The keys requests are made for: the two oldest keys of a filled cache, its
\* newest key, and two keys it never held.
CallKeys == {1, 2, MaxEntries, MaxEntries + 1, MaxEntries + 2}

\* The keys the threads' requests are made for: the oldest key of a filled
\* cache and two keys it never held.
ThreadKeys == {1, MaxEntries + 1, MaxEntries + 2}

\* The sizes of the cache the behaviours start from.
PrefillSizes == {0, MaxEntries - 1, MaxEntries}

\* ttl is the decorator's argument: fixed per wrapped function, and the
\* function's name is part of the key, so a key always meets the same ttl.
TtlOf(k) == IF k % 2 = 1 THEN TtlOdd ELSE TtlEven

VARIABLES
    app_cache,      \* _app_cache, in dict order
    now,            \* the clock time.time() reads
    calls,          \* wrapper calls started so far
    invoked,        \* handler invocations so far
    last,           \* sequential execution: the call that ran last
    prev,           \* sequential execution: the call that ran before it
    pc,             \* threaded execution: each thread's place in the wrapper
    cache_key,      \* each thread's local cache_key
    current_time,   \* each thread's local current_time
    result,         \* each thread's local result
    oldest_key,     \* each thread's local oldest_key
    outcome,        \* how each thread's last call ended
    ret,            \* what each thread's last call returned
    stale,          \* another thread wrote the dict since this thread's min()
    wrong_del       \* a del removed an entry that was not then an oldest one

vars == <<app_cache, now, calls, invoked, last, prev, pc, cache_key,
          current_time, result, oldest_key, outcome, ret, stale, wrong_del>>

thread_vars == <<pc, cache_key, current_time, result, oldest_key, outcome,
                 ret, stale, wrong_del>>

\* ---- the dict ----

Entry(k, v, t) == [key |-> k, val |-> v, ts |-> t]

KeysOf(c) == {c[i].key : i \in 1..Len(c)}

\* `cache_key in _app_cache`
Has(c, k) == \E i \in 1..Len(c) : c[i].key = k

IndexOf(c, k) == CHOOSE i \in 1..Len(c) : c[i].key = k

\* `_app_cache[cache_key]` of a key that is present
Get(c, k) == c[IndexOf(c, k)]

\* Variant of NotExpired: an entry exactly ttl old still counts as fresh.
NotExpiredInclusive(timestamp, t, ttl) == t - timestamp <= ttl

\* `if current_time - timestamp < ttl`
NotExpired(timestamp, t, ttl) == t - timestamp < ttl

\* The whole hit test of a call that no other thread disturbs.
IsHit(c, k, t, ttl) == Has(c, k) /\ NotExpired(Get(c, k).ts, t, ttl)

\* Variant of Put: an entry with a later timestamp is not overwritten.
PutUnlessNewer(c, k, v, t) ==
    IF Has(c, k)
    THEN IF c[IndexOf(c, k)].ts > t
         THEN c
         ELSE [c EXCEPT ![IndexOf(c, k)] = Entry(k, v, t)]
    ELSE Append(c, Entry(k, v, t))

\* `_app_cache[cache_key] = (result, current_time)`
Put(c, k, v, t) ==
    IF Has(c, k)
    THEN [c EXCEPT ![IndexOf(c, k)] = Entry(k, v, t)]
    ELSE Append(c, Entry(k, v, t))

\* Variant of OverLimit: the cleanup starts one entry late.
OverLimitLate(c) == Len(c) > MaxEntries + 1

\* Variant of OverLimit: the cleanup starts at 50 entries already.
OverLimitEarly(c) == Len(c) >= MaxEntries

\* `len(_app_cache) > 50`
OverLimit(c) == Len(c) > MaxEntries

\* Variant of OldestKey: on a tie the last minimal key in dict order.
OldestKeyLastOfTies(c) ==
    c[CHOOSE i \in 1..Len(c) :
        \A j \in 1..Len(c) :
            \/ c[i].ts < c[j].ts
            \/ (c[i].ts = c[j].ts /\ i >= j)].key

\* Variant of OldestKey: max() for min(), the newest key.
NewestKey(c) ==
    c[CHOOSE i \in 1..Len(c) :
        \A j \in 1..Len(c) :
            \/ c[i].ts > c[j].ts
            \/ (c[i].ts = c[j].ts /\ i <= j)].key

\* `min(_app_cache.keys(), key=lambda k: _app_cache[k][1])`
OldestKey(c) ==
    c[CHOOSE i \in 1..Len(c) :
        \A j \in 1..Len(c) :
            \/ c[i].ts < c[j].ts
            \/ (c[i].ts = c[j].ts /\ i <= j)].key

\* `del _app_cache[oldest_key]` of a key that is present
Del(c, k) == SelectSeq(c, LAMBDA e : e.key # k)

\* Variant of Cleanup: two entries go where one should.
CleanupTwo(c) ==
    IF OverLimit(c)
    THEN Del(Del(c, OldestKey(c)), OldestKey(Del(c, OldestKey(c))))
    ELSE c

\* The cleanup block of a call that no other thread disturbs.
Cleanup(c) == IF OverLimit(c) THEN Del(c, OldestKey(c)) ELSE c

\* ---- the initial states ----

\* A cache that n calls for the distinct keys 1..n filled, the second half of
\* them at the time `late`.
Prefill(n, late) ==
    [i \in 1..n |-> Entry(i, 0 - i, IF 2 * i > n THEN late ELSE 0)]

NoCall == [key |-> 0, time |-> 0, outcome |-> "none", ret |-> 0]

Init ==
    /\ \E n \in PrefillSizes, late \in {0, 1} :
          /\ app_cache = Prefill(n, late)
          /\ now = late
    /\ calls = 0
    /\ invoked = 0
    /\ last = NoCall
    /\ prev = NoCall
    /\ pc = [t \in Threads |-> "idle"]
    /\ cache_key = [t \in Threads |-> 0]
    /\ current_time = [t \in Threads |-> 0]
    /\ result = [t \in Threads |-> 0]
    /\ oldest_key = [t \in Threads |-> 0]
    /\ outcome = [t \in Threads |-> "none"]
    /\ ret = [t \in Threads |-> 0]
    /\ stale = [t \in Threads |-> FALSE]
    /\ wrong_del = FALSE

\* Time passes.
Tick ==
    /\ now < MaxTime
    /\ now' = now + 1
    /\ UNCHANGED <<app_cache, calls, invoked, last, prev, thread_vars>>

\* ---- sequential execution: one call runs to completion ----

\* Variant of CallHit: a hit refreshes the entry's timestamp.
CallHitRefreshing(k) ==
    /\ calls < MaxCalls
    /\ IsHit(app_cache, k, now, TtlOf(k))
    /\ calls' = calls + 1
    /\ app_cache' = Put(app_cache, k, Get(app_cache, k).val, now)
    /\ prev' = last
    /\ last' = [key |-> k, time |-> now, outcome |-> "hit",
                ret |-> Get(app_cache, k).val]
    /\ UNCHANGED <<now, invoked, thread_vars>>

\* wrapper(): a call that finds its entry within ttl.
CallHit(k) ==
    /\ calls < MaxCalls
    /\ IsHit(app_cache, k, now, TtlOf(k))
    /\ calls' = calls + 1
    /\ prev' = last
    /\ last' = [key |-> k, time |-> now, outcome |-> "hit",
                ret |-> Get(app_cache, k).val]
    /\ UNCHANGED <<app_cache, now, invoked, thread_vars>>

\* wrapper(): a call that runs the handler, stores its result and cleans up.
CallMiss(k) ==
    /\ calls < MaxCalls
    /\ ~IsHit(app_cache, k, now, TtlOf(k))
    /\ calls' = calls + 1
    /\ invoked' = invoked + 1
    /\ app_cache' = Cleanup(Put(app_cache, k, invoked + 1, now))
    /\ prev' = last
    /\ last' = [key |-> k, time |-> now, outcome |-> "miss",
                ret |-> invoked + 1]
    /\ UNCHANGED <<now, thread_vars>>

\* Variant of CallRaise: the failure is stored under the key.
CallRaiseCaching(k) ==
    /\ calls < MaxCalls
    /\ ~IsHit(app_cache, k, now, TtlOf(k))
    /\ calls' = calls + 1
    /\ invoked' = invoked + 1
    /\ app_cache' = Cleanup(Put(app_cache, k, 0, now))
    /\ prev' = last
    /\ last' = [key |-> k, time |-> now, outcome |-> "raised", ret |-> 0]
    /\ UNCHANGED <<now, thread_vars>>

\* wrapper(): a call whose handler raises.
CallRaise(k) ==
    /\ calls < MaxCalls
    /\ ~IsHit(app_cache, k, now, TtlOf(k))
    /\ calls' = calls + 1
    /\ invoked' = invoked + 1
    /\ prev' = last
    /\ last' = [key |-> k, time |-> now, outcome |-> "raised", ret |-> 0]
    /\ UNCHANGED <<app_cache, now, thread_vars>>

SeqNext ==
    \/ Tick
    \/ \E k \in CallKeys : CallHit(k)
    \/ \E k \in CallKeys : CallMiss(k)
    \/ \E k \in CallKeys : CallRaise(k)

SeqSpec == Init /\ [][SeqNext]_vars

\* ---- threaded execution: the wrapper's accesses to the dict interleave ----
\* Each access to _app_cache is one step (a dict operation is atomic under the
\* interpreter lock), the scan of min() included.

\* The entry of k has the least timestamp of the dict.
IsOldest(c, k) == \A j \in 1..Len(c) : Get(c, k).ts <= c[j].ts

\* The call of thread t is over: its locals are dropped.
Return(t, how, value) ==
    /\ pc' = [pc EXCEPT ![t] = "idle"]
    /\ outcome' = [outcome EXCEPT ![t] = how]
    /\ ret' = [ret EXCEPT ![t] = value]
    /\ cache_key' = [cache_key EXCEPT ![t] = 0]
    /\ current_time' = [current_time EXCEPT ![t] = 0]
    /\ result' = [result EXCEPT ![t] = 0]
    /\ oldest_key' = [oldest_key EXCEPT ![t] = 0]

\* The threads whose chosen oldest_key a write of thread t makes out of date.
Disturb(t) == [u \in Threads |-> IF u # t /\ pc[u] = "del" THEN TRUE ELSE stale[u]]

\* wrapper() is entered: cache_key and current_time are set.
Start(t, k) ==
    /\ pc[t] = "idle"
    /\ calls < MaxThreadCalls
    /\ calls' = calls + 1
    /\ pc' = [pc EXCEPT ![t] = "test"]
    /\ cache_key' = [cache_key EXCEPT ![t] = k]
    /\ current_time' = [current_time EXCEPT ![t] = now]
    /\ outcome' = [outcome EXCEPT ![t] = "none"]
    /\ ret' = [ret EXCEPT ![t] = 0]
    /\ UNCHANGED <<app_cache, now, invoked, last, prev, result, oldest_key, stale,
                   wrong_del>>

\* `if cache_key in _app_cache:`
Test(t) ==
    /\ pc[t] = "test"
    /\ pc' = [pc EXCEPT ![t] =
                IF Has(app_cache, cache_key[t]) THEN "read" ELSE "call"]
    /\ UNCHANGED <<app_cache, now, calls, invoked, last, prev, cache_key,
                   current_time, result, oldest_key, outcome, ret, stale,
                   wrong_del>>

\* `cached_result, timestamp = _app_cache[cache_key]`, within ttl:
\* `return cached_result`
ReadHit(t) ==
    /\ pc[t] = "read"
    /\ Has(app_cache, cache_key[t])
    /\ NotExpired(Get(app_cache, cache_key[t]).ts, current_time[t],
                  TtlOf(cache_key[t]))
    /\ Return(t, "hit", Get(app_cache, cache_key[t]).val)
    /\ UNCHANGED <<app_cache, now, calls, invoked, last, prev, stale, wrong_del>>

\* `cached_result, timestamp = _app_cache[cache_key]`, expired: fall through
ReadExpired(t) ==
    /\ pc[t] = "read"
    /\ Has(app_cache, cache_key[t])
    /\ ~NotExpired(Get(app_cache, cache_key[t]).ts, current_time[t],
                   TtlOf(cache_key[t]))
    /\ pc' = [pc EXCEPT ![t] = "call"]
    /\ UNCHANGED <<app_cache, now, calls, invoked, last, prev, cache_key,
                   current_time, result, oldest_key, outcome, ret, stale,
                   wrong_del>>

\* `_app_cache[cache_key]` of a key deleted since the membership test: KeyError
ReadKeyError(t) ==
    /\ pc[t] = "read"
    /\ ~Has(app_cache, cache_key[t])
    /\ Return(t, "KeyError", 0)
    /\ UNCHANGED <<app_cache, now, calls, invoked, last, prev, stale, wrong_del>>

\* `result = f(*args, **kwargs)` returns
Invoke(t) ==
    /\ pc[t] = "call"
    /\ invoked' = invoked + 1
    /\ result' = [result EXCEPT ![t] = invoked + 1]
    /\ pc' = [pc EXCEPT ![t] = "store"]
    /\ UNCHANGED <<app_cache, now, calls, last, prev, cache_key, current_time,
                   oldest_key, outcome, ret, stale, wrong_del>>

\* `result = f(*args, **kwargs)` raises: the exception leaves the wrapper
InvokeRaise(t) ==
    /\ pc[t] = "call"
    /\ invoked' = invoked + 1
    /\ Return(t, "raised", 0)
    /\ UNCHANGED <<app_cache, now, calls, last, prev, stale, wrong_del>>

\* `_app_cache[cache_key] = (result, current_time)`
Store(t) ==
    /\ pc[t] = "store"
    /\ app_cache' = Put(app_cache, cache_key[t], result[t], current_time[t])
    /\ pc' = [pc EXCEPT ![t] = "len"]
    /\ stale' = Disturb(t)
    /\ UNCHANGED <<now, calls, invoked, last, prev, cache_key, current_time,
                   result, oldest_key, outcome, ret, wrong_del>>

\* `if len(_app_cache) > 50:` holds
LenOver(t) ==
    /\ pc[t] = "len"
    /\ OverLimit(app_cache)
    /\ pc' = [pc EXCEPT ![t] = "min"]
    /\ UNCHANGED <<app_cache, now, calls, invoked, last, prev, cache_key,
                   current_time, result, oldest_key, outcome, ret, stale,
                   wrong_del>>

\* `if len(_app_cache) > 50:` fails: `return result`
LenWithin(t) ==
    /\ pc[t] = "len"
    /\ ~OverLimit(app_cache)
    /\ Return(t, "miss", result[t])
    /\ UNCHANGED <<app_cache, now, calls, invoked, last, prev, stale, wrong_del>>

\* `oldest_key = min(_app_cache.keys(), key=lambda k: _app_cache[k][1])`
Min(t) ==
    /\ pc[t] = "min"
    /\ oldest_key' = [oldest_key EXCEPT ![t] = OldestKey(app_cache)]
    /\ pc' = [pc EXCEPT ![t] = "del"]
    /\ stale' = [stale EXCEPT ![t] = FALSE]
    /\ UNCHANGED <<app_cache, now, calls, invoked, last, prev, cache_key,
                   current_time, result, outcome, ret, wrong_del>>

\* `del _app_cache[oldest_key]`, then `return result`
Delete(t) ==
    /\ pc[t] = "del"
    /\ Has(app_cache, oldest_key[t])
    /\ app_cache' = Del(app_cache, oldest_key[t])
    /\ wrong_del' = (wrong_del \/ ~IsOldest(app_cache, oldest_key[t]))
    /\ stale' = [Disturb(t) EXCEPT ![t] = FALSE]
    /\ Return(t, "miss", result[t])
    /\ UNCHANGED <<now, calls, invoked, last, prev>>

\* `del _app_cache[oldest_key]` of a key another thread deleted: KeyError
DeleteKeyError(t) ==
    /\ pc[t] = "del"
    /\ ~Has(app_cache, oldest_key[t])
    /\ stale' = [stale EXCEPT ![t] = FALSE]
    /\ Return(t, "KeyError", 0)
    /\ UNCHANGED <<app_cache, now, calls, invoked, last, prev, wrong_del>>

Next ==
    \/ Tick
    \/ \E t \in Threads, k \in ThreadKeys : Start(t, k)
    \/ \E t \in Threads : Test(t)
    \/ \E t \in Threads : ReadHit(t)
    \/ \E t \in Threads : ReadExpired(t)
    \/ \E t \in Threads : ReadKeyError(t)
    \/ \E t \in Threads : Invoke(t)
    \/ \E t \in Threads : InvokeRaise(t)
    \/ \E t \in Threads : Store(t)
    \/ \E t \in Threads : LenOver(t)
    \/ \E t \in Threads : LenWithin(t)
    \/ \E t \in Threads : Min(t)
    \/ \E t \in Threads : Delete(t)
    \/ \E t \in Threads : DeleteKeyError(t)

Spec == Init /\ [][Next]_vars

\* ---- what the claims are stated with ----

\* The step is one whole sequential call.
IsCall == calls' = calls + 1

\* Every thread is outside the wrapper.
AtRest == \A t \in Threads : pc[t] = "idle"

\* The entries of the dict, as a set.
EntriesOf(c) == {c[i] : i \in 1..Len(c)}

\* The keys, timestamps and dict places right after key k is written at time
\* t into c, before any cleanup.
KeysAfter(c, k) == KeysOf(c) \cup {k}
TsAfter(c, k, t, u) == IF u = k THEN t ELSE Get(c, u).ts
PlaceAfter(c, k, u) == IF Has(c, u) THEN IndexOf(c, u) ELSE Len(c) + 1

\* Writing k makes the dict hold more than 50 entries.
RaisesAbove(c, k) == Cardinality(KeysAfter(c, k)) > MaxEntries

\* u is the entry min() picks right after k is written at time t: the least
\* timestamp, and on a tie the first place in dict order.
PickedAfter(c, k, t, u) ==
    \A w \in KeysAfter(c, k) :
        \/ TsAfter(c, k, t, u) < TsAfter(c, k, t, w)
        \/ /\ TsAfter(c, k, t, u) = TsAfter(c, k, t, w)
           /\ PlaceAfter(c, k, u) <= PlaceAfter(c, k, w)

\* Some entry of c is past its ttl at time t.
SomeExpired(c, t) ==
    \E i \in 1..Len(c) : t - c[i].ts >= TtlOf(c[i].key)

\* ---- C1 ----
\* C1: in sequential execution, whatever the keys and the times of the calls,
\* _app_cache holds at most 50 entries whenever no call is in progress.
C1_AtMost50AtRest == Len(app_cache) <= MaxEntries

\* A call has inserted a 51st key and the cleanup has taken the dict back to 50.
C1_Witness ==
    /\ last.outcome = "miss"
    /\ Has(app_cache, last.key)
    /\ last.key > MaxEntries
    /\ ~Has(app_cache, 1)
    /\ Len(app_cache) = MaxEntries

\* ---- C2 ----
\* C2: a call that finds its key stored with now - timestamp < ttl returns the
\* stored value, does not invoke the handler and leaves the whole dict as it
\* was (no timestamp refreshed); so a call for the key of the preceding call,
\* which stored less than ttl ago, invokes nothing and returns that call's
\* result.
C2_HitChangesNothing ==
    [][IsCall =>
        LET k == last'.key IN
        /\ (Has(app_cache, k) /\ now - Get(app_cache, k).ts < TtlOf(k)) =>
              /\ last'.outcome = "hit"
              /\ last'.ret = Get(app_cache, k).val
              /\ invoked' = invoked
              /\ app_cache' = app_cache
        /\ (last.outcome = "miss" /\ last.key = k
                /\ now - last.time < TtlOf(k)) =>
              /\ invoked' = invoked
              /\ last'.ret = last.ret]_vars

\* A miss, then later and within ttl a hit on the same key that returned the
\* miss's result, the entry still carrying the time of the miss.
C2_Witness ==
    /\ prev.outcome = "miss"
    /\ last.outcome = "hit"
    /\ last.key = prev.key
    /\ last.ret = prev.ret
    /\ last.time > prev.time
    /\ invoked = 1
    /\ Get(app_cache, last.key) = Entry(prev.key, prev.ret, prev.time)

\* ---- C3 ----
\* C3: a call whose key is absent, or stored with now - timestamp >= ttl (the
\* age equal to ttl included), invokes the handler exactly once and, when the
\* handler returns, leaves (result, now) under the key and returns the result;
\* an entry that was there is overwritten at its place in the dict.  So a call
\* for the key of the preceding call, which stored ttl or more ago, invokes
\* the handler again.
C3_MissStoresResult ==
    [][IsCall =>
        LET k == last'.key IN
        /\ (~Has(app_cache, k) \/ now - Get(app_cache, k).ts >= TtlOf(k)) =>
              /\ last'.outcome \in {"miss", "raised"}
              /\ invoked' = invoked + 1
              /\ last'.outcome = "miss" =>
                    /\ last'.ret = invoked + 1
                    /\ Has(app_cache', k)
                    /\ Get(app_cache', k) = Entry(k, last'.ret, now)
                    /\ Has(app_cache, k) =>
                          app_cache' = [app_cache EXCEPT ![IndexOf(app_cache, k)]
                                            = Entry(k, last'.ret, now)]
        /\ (last.outcome = "miss" /\ last.key = k
                /\ now - last.time >= TtlOf(k)) =>
              invoked' = invoked + 1]_vars

\* The first call found key 1 stored exactly ttl ago and overwrote it where it
\* stood, at the head of the dict.
C3_Witness ==
    /\ calls = 1
    /\ last.outcome = "miss"
    /\ last.key = 1
    /\ last.time = TtlOf(1)
    /\ Len(app_cache) = MaxEntries
    /\ app_cache[1] = Entry(1, last.ret, last.time)
    /\ app_cache[2].ts = 0

\* ---- C4 ----
\* C4: in sequential execution a miss whose insert takes the count above 50
\* removes exactly one entry, the one with the least timestamp (on a tie the
\* first of them in dict order); any other miss removes nothing.  The 51st
\* distinct key put into a cache that 50 distinct keys filled leaves 50
\* entries: all but the first-inserted key.
C4_EvictsTheOldest ==
    [][(IsCall /\ last'.outcome = "miss") =>
        LET k == last'.key
            all == KeysAfter(app_cache, k)
        IN
        /\ RaisesAbove(app_cache, k) =>
              /\ KeysOf(app_cache') \subseteq all
              /\ Len(app_cache') = Cardinality(all) - 1
              /\ Cardinality(all \ KeysOf(app_cache')) = 1
              /\ \A v \in all \ KeysOf(app_cache') :
                    PickedAfter(app_cache, k, now, v)
        /\ ~RaisesAbove(app_cache, k) =>
              /\ KeysOf(app_cache') = all
              /\ Len(app_cache') = Cardinality(all)
        /\ (calls = 0 /\ Len(app_cache) = MaxEntries /\ ~Has(app_cache, k)) =>
              /\ Len(app_cache') = MaxEntries
              /\ KeysOf(app_cache') = (2..MaxEntries) \cup {k}]_vars

\* The 51st distinct key is in, key 1 is out, keys 2..50 are all there.
C4_Witness ==
    /\ calls = 1
    /\ last.outcome = "miss"
    /\ last.key = MaxEntries + 1
    /\ Len(app_cache) = MaxEntries
    /\ KeysOf(app_cache) = 2..(MaxEntries + 1)

\* ---- C5 ----
\* C5: when the handler raises, the call ends with the exception and the dict
\* is what it was before the call; the next call for the same key invokes the
\* handler again and, if the handler returns, stores and returns its result.
C5_NoNegativeCaching ==
    [][IsCall =>
        LET k == last'.key IN
        /\ last'.outcome = "raised" => app_cache' = app_cache
        /\ (last.outcome = "raised" /\ last.key = k) =>
              /\ last'.outcome \in {"miss", "raised"}
              /\ invoked' = invoked + 1
              /\ last'.outcome = "miss" =>
                    /\ last'.ret = invoked + 1
                    /\ Has(app_cache', k)
                    /\ Get(app_cache', k) = Entry(k, last'.ret, now)]_vars

\* The handler raised for key 1 whose entry had expired, the entry stayed, and
\* the next call for key 1 stored and returned a result.
C5_Witness ==
    /\ calls = 2
    /\ prev.outcome = "raised"
    /\ prev.key = 1
    /\ last.outcome = "miss"
    /\ last.key = 1
    /\ Len(app_cache) >= MaxEntries - 1
    /\ Get(app_cache, 1) = Entry(1, last.ret, last.time)

\* A raising handler left an expired entry with its value and timestamp.
C5_ExpiredEntryKept ==
    /\ calls = 1
    /\ last.outcome = "raised"
    /\ last.key = 1
    /\ Has(app_cache, 1)
    /\ Get(app_cache, 1) = Entry(1, 0 - 1, 0)

\* ---- C6 ----
\* C6 as stated: no call for a key k1 changes whether another key k2 is in the
\* dict, or k2's stored value.
C6_AsStated ==
    [][IsCall =>
        \A k2 \in (KeysOf(app_cache) \cup KeysOf(app_cache')) \ {last'.key} :
            /\ Has(app_cache', k2) = Has(app_cache, k2)
            /\ Has(app_cache, k2) =>
                  Get(app_cache', k2).val = Get(app_cache, k2).val]_vars

\* C6 as amended: a call for k1 never changes the stored value or timestamp of
\* another key k2 and never makes an absent k2 present; it removes k2 only
\* when its insert takes the count above 50 and k2 is the entry with the least
\* timestamp (the first of them in dict order on a tie).
C6_IsolationButForEviction ==
    [][IsCall =>
        LET k1 == last'.key
            old == EntriesOf(app_cache)
            new == EntriesOf(app_cache')
        IN
        /\ \A e \in new : e.key # k1 => e \in old
        /\ \A e \in old \ new :
              e.key # k1 =>
                  /\ ~Has(app_cache', e.key)
                  /\ last'.outcome = "miss"
                  /\ RaisesAbove(app_cache, k1)
                  /\ PickedAfter(app_cache, k1, now, e.key)]_vars

\* An insert of key 51 removed key 1 and left key 2 as it was filled.
C6_Witness ==
    /\ last.outcome = "miss"
    /\ last.key = MaxEntries + 1
    /\ ~Has(app_cache, 1)
    /\ Has(app_cache, 2)
    /\ Get(app_cache, 2) = Entry(2, 0 - 2, 0)

\* ---- C7 ----
\* C7: a call raises only what its handler raised, also when the threads'
\* accesses to the dict interleave: no call ends with a KeyError of the dict.
C7_OnlyHandlerErrors == \A t \in Threads : outcome[t] # "KeyError"

\* ---- C8 ----
\* C8: with threads interleaving, whenever no call is in progress the dict
\* holds at most 50 entries.
C8_AtMost50AtRestThreaded == AtRest => Len(app_cache) <= MaxEntries

\* ---- C9 ----
\* C9: time passing removes nothing; an entry, expired or not, stays as it is
\* until a miss on its own key overwrites it or the cleanup of an insert that
\* took the count above 50 removes it.  So in sequential execution the number
\* of entries never decreases, and from 50 it stays 50.
C9_OnlyEvictionRemoves ==
    [][/\ ~IsCall => app_cache' = app_cache
       /\ Len(app_cache') >= Len(app_cache)
       /\ Len(app_cache) = MaxEntries => Len(app_cache') = MaxEntries
       /\ \A e \in EntriesOf(app_cache) \ EntriesOf(app_cache') :
             /\ IsCall
             /\ last'.outcome = "miss"
             /\ \/ last'.key = e.key /\ Has(app_cache', e.key)
                \/ /\ RaisesAbove(app_cache, last'.key)
                   /\ ~Has(app_cache', e.key)]_vars

\* After all the calls of the behaviour the dict is full and still holds an
\* entry that is past its ttl.
C9_Witness ==
    /\ calls = MaxCalls
    /\ now = MaxTime
    /\ Len(app_cache) = MaxEntries
    /\ ~Has(app_cache, 1)
    /\ SomeExpired(app_cache, now)

\* ---- C10 ----
\* C10: a del removes an entry that is not an oldest entry of the dict only
\* when another thread has written the dict between the min() that chose the
\* key and the del; with two threads such a del is reachable (C10_Witness).
C10_WrongOnlyWhenStale ==
    \A t \in Threads :
        (pc[t] = "del" /\ ~stale[t]) =>
            /\ Has(app_cache, oldest_key[t])
            /\ \A j \in 1..Len(app_cache) :
                  Get(app_cache, oldest_key[t]).ts <= app_cache[j].ts

\* A del has removed an entry whose timestamp was not the least of the dict.
C10_Witness == wrong_del

\* ---- C11 ----
\* C11: a thread's write puts its own (result, current_time) under the key
\* whatever another thread stored there meanwhile, with the time the thread
\* read before it computed (never later than the clock) and without touching
\* another key's entry.  So when two threads call for the same absent or
\* expired key and both pass the hit check before either stores, the handler
\* runs twice within one ttl window and the entry left is the one written
\* last, which may carry the earlier of the two times (C11_Witness).
C11_LastWriteWins ==
    [][\A t \in Threads :
          (pc[t] = "store" /\ pc'[t] = "len") =>
              LET k == cache_key[t] IN
              /\ Has(app_cache', k)
              /\ Get(app_cache', k) = Entry(k, result[t], current_time[t])
              /\ current_time[t] <= now
              /\ \A e \in EntriesOf(app_cache') :
                    e.key # k => e \in EntriesOf(app_cache)]_vars

\* Both threads called for key 1 less than ttl apart, both ran the handler and
\* both stored; the entry left is thread 1's, with the earlier of the two
\* times, and thread 2's result is gone.
C11_Witness ==
    /\ pc[1] = "len"
    /\ pc[2] = "len"
    /\ cache_key[1] = 1
    /\ cache_key[2] = 1
    /\ invoked = 2
    /\ result[1] # result[2]
    /\ current_time[1] < current_time[2]
    /\ current_time[2] - current_time[1] < TtlOf(1)
    /\ Get(app_cache, 1) = Entry(1, result[1], current_time[1])
    /\ \A e \in EntriesOf(app_cache) : e.val # result[2]

====
